---- MODULE Spec2Model ----
(***************************************************************************)
(* Coding Community API (src/main.py): the submission/streak handlers, the *)
(* daily-challenge generator and the post/comment pass-through handlers,   *)
(* over a document store with three collections.                           *)
(*                                                                         *)
(* Dates.  The server clock is the variable now, a day ordinal (days since *)
(* 2023-01-01; the time of day plays no part in any handler).  A date      *)
(* string "YYYY-MM-DD" is the tuple <<Y, M, D>> of its three zero-padded   *)
(* fields: strftime and strptime convert between ordinals and such tuples  *)
(* with the Gregorian calendar, and strings are ordered field by field,    *)
(* which is the order of the zero-padded text.                             *)
(*                                                                         *)
(* Requests.  Each slot of Slots runs one request at a time; a handler     *)
(* that touches the store and the clock more than once is one action per   *)
(* touch, so that requests interleave the way the transport layer lets     *)
(* them.                                                                   *)
(*                                                                         *)
(* Collections.  A collection is the list of its documents in insertion    *)
(* order, kept as entries [doc, copies]: an entry stands for copies        *)
(* documents with the fields of doc inserted one after the other.  Every   *)
(* document a handler creates is an entry of one copy; only the            *)
(* submissions of a first state come in longer runs (a user who submitted  *)
(* a thousand times).                                                      *)
(***************************************************************************)
EXTENDS Integers, Sequences, FiniteSets, TLC

VARIABLES now, submission, communitypost, comment, next_id, pc, req, resp

vars == <<now, submission, communitypost, comment, next_id, pc, req, resp>>
stores == <<submission, communitypost, comment, next_id>>

-----------------------------------------------------------------------------
(* Bounds of the model *)

\* clock ticks a behaviour may take after its first state
MaxTicks == 1
\* documents a behaviour may create on top of its first state
MaxDocs == 2
\* days before the first clock value on which prior submissions are enumerated
HistDays == 3

\* requests in flight at once
Slots == {1, 2}

-----------------------------------------------------------------------------
(* Program constants *)

LANGUAGES == <<"python", "javascript", "java", "go", "rust", "cpp">>

\* timedelta(days=60)
WindowDays == 60
\* the limit submit_solution and get_streak pass to get_documents
SubmissionLimit == 1000
\* list_posts(limit: int = 25)
DefaultPostLimit == 25
\* list_comments(limit: int = 100)
DefaultCommentLimit == 100

titles ==
    << "Two Sum Variant", "String Compression", "Balanced Brackets",
       "LRU Cache Mini", "Matrix Spiral", "Binary Tree Paths",
       "Anagram Groups", "Word Ladder Mini" >>

descriptions ==
    << "Solve the task and share your approach.",
       "Write clean, idiomatic code and discuss trade-offs.",
       "Consider time/space complexity and edge cases." >>

\* Python's None, and the truth value of an Optional[str]
None == "<None>"
Truthy(x) == x # None /\ x # ""

InList(x, list) == \E i \in 1..Len(list) : list[i] = x

-----------------------------------------------------------------------------
(* Calendar: datetime.date arithmetic, strftime("%Y-%m-%d"), strptime *)

IsLeap(y) == (y % 4 = 0 /\ y % 100 # 0) \/ y % 400 = 0

DaysInMonth(y, m) ==
    IF m = 2 THEN (IF IsLeap(y) THEN 29 ELSE 28)
    ELSE IF m \in {4, 6, 9, 11} THEN 30 ELSE 31

DaysInYear(y) == IF IsLeap(y) THEN 366 ELSE 365

RECURSIVE DaysBeforeYear(_)
DaysBeforeYear(y) == IF y <= 2023 THEN 0 ELSE DaysBeforeYear(y - 1) + DaysInYear(y - 1)

RECURSIVE DaysBeforeMonth(_, _)
DaysBeforeMonth(y, m) == IF m <= 1 THEN 0 ELSE DaysBeforeMonth(y, m - 1) + DaysInMonth(y, m - 1)

RECURSIVE MonthDay(_, _, _)
MonthDay(y, m, n) ==
    IF n < DaysInMonth(y, m) THEN <<y, m, n + 1>> ELSE MonthDay(y, m + 1, n - DaysInMonth(y, m))

RECURSIVE YearDay(_, _)
YearDay(y, n) == IF n < DaysInYear(y) THEN MonthDay(y, 1, n) ELSE YearDay(y + 1, n - DaysInYear(y))

\* date.strftime("%Y-%m-%d"): the date string of a day ordinal
strftime(n) == YearDay(2023, n)

\* datetime.strptime(s, "%Y-%m-%d").date(): the day ordinal of a date string
strptime(s) == DaysBeforeYear(s[1]) + DaysBeforeMonth(s[1], s[2]) + s[3] - 1

\* today_str(): the local date of the clock, formatted
today_str == strftime(now)

\* s >= t on date strings: the order of the zero-padded text
StrGte(s, t) ==
    \/ s[1] > t[1]
    \/ s[1] = t[1] /\ s[2] > t[2]
    \/ s[1] = t[1] /\ s[2] = t[2] /\ s[3] >= t[3]

-----------------------------------------------------------------------------
(* Document store adapter (database.py) *)

\* a filter: equalities on fields and "$gte" lower bounds on fields
Matches(doc, filt) ==
    /\ \A k \in DOMAIN filt.eq : doc[k] = filt.eq[k]
    /\ \A k \in DOMAIN filt.gte : StrGte(doc[k], filt.gte[k])

\* create_document(collection_name, data): the collection with the document
\* appended under a generated _id
create_document(coll, data, id) ==
    Append(coll, [doc |-> data @@ ("_id" :> id), copies |-> 1])

\* the number of documents in entries lo..hi of a list of entries
RECURSIVE Count(_, _, _)
Count(entries, lo, hi) ==
    IF lo > hi THEN 0
    ELSE IF lo = hi THEN entries[lo].copies
    ELSE LET mid == (lo + hi) \div 2
         IN  Count(entries, lo, mid) + Count(entries, mid + 1, hi)

\* the number of documents before each entry of a list of entries
Before(entries) == [i \in 1..Len(entries) |-> Count(entries, 1, i - 1)]

\* the entries that start before the limit, the last one cut at the limit
LimitAt(found, limit, before) ==
    [i \in 1..Cardinality({j \in 1..Len(found) : before[j] < limit}) |->
        [found[i] EXCEPT !.copies = IF @ <= limit - before[i] THEN @
                                    ELSE limit - before[i]]]

\* cursor.limit(limit): the first limit documents of a list of entries
Limit(found, limit) == LimitAt(found, limit, Before(found))

\* get_documents(collection_name, filter_dict, limit): the matching
\* documents, at most limit of them, in the collection's order
get_documents(coll, filt, limit) ==
    LET Hit(e) == Matches(e.doc, filt)
    IN  Limit(SelectSeq(coll, Hit), limit)

\* the documents of a list of entries, one by one
DocumentsAt(entries, before) ==
    [n \in 1..Count(entries, 1, Len(entries)) |->
        entries[CHOOSE i \in 1..Len(entries) :
                    before[i] < n /\ n <= before[i] + entries[i].copies].doc]

Documents(entries) == DocumentsAt(entries, Before(entries))

\* str(x) of a generated id
Str(x) == <<"str", x>>

-----------------------------------------------------------------------------
(* Text: the characters of the strings whose characters the code reads *)

Spelling ==
    [python |-> <<"p", "y", "t", "h", "o", "n">>,
     javascript |-> <<"j", "a", "v", "a", "s", "c", "r", "i", "p", "t">>,
     java |-> <<"j", "a", "v", "a">>,
     go |-> <<"g", "o">>,
     rust |-> <<"r", "u", "s", "t">>,
     cpp |-> <<"c", "p", "p">>]

Digits == <<"0", "1", "2", "3", "4", "5", "6", "7", "8", "9">>
Lower == <<"a", "b", "c", "d", "e", "f", "g", "h", "i", "j", "k", "l", "m",
           "n", "o", "p", "q", "r", "s", "t", "u", "v", "w", "x", "y", "z">>
Upper == <<"A", "B", "C", "D", "E", "F", "G", "H", "I", "J", "K", "L", "M",
           "N", "O", "P", "Q", "R", "S", "T", "U", "V", "W", "X", "Y", "Z">>

IndexIn(c, list) == CHOOSE i \in 1..Len(list) : list[i] = c

\* ord(c): the code point of a character
ord(c) ==
    IF c = "-" THEN 45
    ELSE IF InList(c, Digits) THEN 47 + IndexIn(c, Digits)
    ELSE IF InList(c, Upper) THEN 64 + IndexIn(c, Upper)
    ELSE 96 + IndexIn(c, Lower)

\* the characters of a number written with width digits, zero-padded
RECURSIVE Padded(_, _)
Padded(n, width) ==
    IF width = 0 THEN <<>> ELSE Append(Padded(n \div 10, width - 1), Digits[(n % 10) + 1])

\* Mutant of Text: the date formatted without its hyphens, %Y%m%d
Text_NoHyphens(date) == Padded(date[1], 4) \o Padded(date[2], 2) \o Padded(date[3], 2)

\* the characters of a date string: %Y-%m-%d
Text(date) == Padded(date[1], 4) \o <<"-">> \o Padded(date[2], 2) \o <<"-">> \o Padded(date[3], 2)

\* str.title() of a word of lowercase letters: its first letter in upper case
title(chars) ==
    IF chars = <<>> THEN <<>> ELSE <<Upper[IndexIn(chars[1], Lower)]>> \o Tail(chars)

\* sum(ord(c) for c in chars)
RECURSIVE SumOrd(_)
SumOrd(chars) == IF chars = <<>> THEN 0 ELSE ord(Head(chars)) + SumOrd(Tail(chars))

-----------------------------------------------------------------------------
(* Streak computation shared by submit_solution and get_streak *)

\* the start of the trailing window, read from the clock
start_date == strftime(now - WindowDays)

\* Mutant of SubmissionFilter: the query does not select the user
SubmissionFilter_AnyUser(username, language, start) ==
    [eq |-> "language" :> language, gte |-> "date" :> start]

\* Mutant of SubmissionFilter: the query has no lower bound on the date
SubmissionFilter_NoWindow(username, language, start) ==
    [eq |-> ("username" :> username) @@ ("language" :> language), gte |-> <<>>]

SubmissionFilter(username, language, start) ==
    [eq |-> ("username" :> username) @@ ("language" :> language),
     gte |-> ("date" :> start)]

\* days = sorted({it["date"] for it in items}); as a set
DaysOf(items) == {items[i].doc.date : i \in 1..Len(items)}

\* while current.strftime(...) in sset: streak += 1; current -= 1 day
\* The loop ends with streak the first number of days back from current
\* whose date string is not in sset.
StreakLoop(current, sset) ==
    CHOOSE streak \in 0..Cardinality(sset) :
        /\ strftime(current - streak) \notin sset
        /\ \A back \in 0..(streak - 1) : strftime(current - back) \in sset

\* sorted(set): the ascending list of a set of date strings
\* the date strings of a set of <<date string, rank>> pairs, listed by rank
Ranked(ranks) == [i \in 1..Cardinality(ranks) |-> (CHOOSE p \in ranks : p[2] = i)[1]]

SortedDays(sset) ==
    Ranked({<<d, Cardinality({e \in sset : StrGte(d, e)})>> : d \in sset})

\* current = datetime.strptime(date, "%Y-%m-%d").date(); sset = set(days);
\* the loop
StreakOver(sset, date) ==
    [streak |-> StreakLoop(strptime(date), sset), days |-> SortedDays(sset)]

\* the documents of items dated on one of the streak days ending at date
OnStreakDays(items, date, streak) ==
    LET On(e) == /\ strptime(e.doc.date) <= strptime(date)
                 /\ strptime(e.doc.date) > strptime(date) - streak
    IN  SelectSeq(items, On)

\* Mutant of CurrentStreak: the loop counts a day once per submission on it
CountedPerSubmission(items, date, counted) ==
    [counted EXCEPT !.streak = Count(OnStreakDays(items, date, counted.streak), 1,
                                      Len(OnStreakDays(items, date, counted.streak)))]

CurrentStreak_PerSubmission(coll, username, language, date, start) ==
    CountedPerSubmission(
        get_documents(coll, SubmissionFilter(username, language, start), SubmissionLimit),
        date,
        StreakOver(DaysOf(get_documents(coll, SubmissionFilter(username, language, start),
                                        SubmissionLimit)),
                   date))

\* the window query and the loop, for a request that read date and start
CurrentStreak(coll, username, language, date, start) ==
    StreakOver(DaysOf(get_documents(coll, SubmissionFilter(username, language, start),
                                    SubmissionLimit)),
               date)

-----------------------------------------------------------------------------
(* Requests: what the callers of the model send *)

Usernames == {"alice", "bob"}
\* two supported languages and one outside LANGUAGES
RequestLanguages == {"python", "go", "klingon"}
PostKinds == {"project", "question", "poll"}
PostContents == {"c1", "c2"}
\* limits a caller of GET /posts passes; the last is the default
PostLimits == {1, DefaultPostLimit}

Idle == [op |-> "none"]
NoResponse == [status |-> 0]

HTTPException(status_code, detail) == [status |-> status_code, detail |-> detail]
Ok(body) == [status |-> 200, body |-> body]

\* the clock at the first state: 2024-03-01
Day0 == strptime(<<2024, 3, 1>>)

-----------------------------------------------------------------------------
(* POST /submit *)

\* Mutant of submit_solution_record: a pair that has a record for today is
\* not recorded again
submit_solution_record_Once(s, username, language) ==
    /\ pc[s] = "idle"
    /\ IF ~InList(language, LANGUAGES)
       THEN /\ pc' = [pc EXCEPT ![s] = "done"]
            /\ req' = [req EXCEPT ![s] = [op |-> "submit", username |-> username,
                                          language |-> language]]
            /\ resp' = [resp EXCEPT ![s] = HTTPException(400, "Unsupported language")]
            /\ UNCHANGED stores
       ELSE /\ next_id <= MaxDocs
            /\ LET date == today_str
                   sub_doc == [username |-> username, language |-> language, date |-> date]
                   recorded == \E i \in 1..Len(submission) :
                                  /\ submission[i].doc.username = username
                                  /\ submission[i].doc.language = language
                                  /\ submission[i].doc.date = date
               IN  /\ IF recorded
                      THEN UNCHANGED <<submission, next_id>>
                      ELSE /\ submission' = create_document(submission, sub_doc, next_id)
                           /\ next_id' = next_id + 1
                   /\ req' = [req EXCEPT ![s] = [op |-> "submit", username |-> username,
                                                 language |-> language, date |-> date]]
            /\ pc' = [pc EXCEPT ![s] = "submit_recorded"]
            /\ UNCHANGED <<communitypost, comment, resp>>
    /\ UNCHANGED now

\* lines 153-163: validate, read today's date, append the record
submit_solution_record(s, username, language) ==
    /\ pc[s] = "idle"
    /\ IF ~InList(language, LANGUAGES)
       THEN /\ pc' = [pc EXCEPT ![s] = "done"]
            /\ req' = [req EXCEPT ![s] = [op |-> "submit", username |-> username,
                                          language |-> language]]
            /\ resp' = [resp EXCEPT ![s] = HTTPException(400, "Unsupported language")]
            /\ UNCHANGED stores
       ELSE /\ next_id <= MaxDocs
            /\ LET date == today_str
                   sub_doc == [username |-> username, language |-> language, date |-> date]
               IN  /\ submission' = create_document(submission, sub_doc, next_id)
                   /\ req' = [req EXCEPT ![s] = [op |-> "submit", username |-> username,
                                                 language |-> language, date |-> date]]
            /\ next_id' = next_id + 1
            /\ pc' = [pc EXCEPT ![s] = "submit_recorded"]
            /\ UNCHANGED <<communitypost, comment, resp>>
    /\ UNCHANGED now

\* lines 167-182: read the window start, query the window, count the streak
submit_solution_streak(s) ==
    /\ pc[s] = "submit_recorded"
    /\ LET r == CurrentStreak(submission, req[s].username, req[s].language,
                              req[s].date, start_date)
       IN  resp' = [resp EXCEPT ![s] = Ok([ok |-> TRUE, date |-> req[s].date,
                                            streak |-> r.streak])]
    /\ pc' = [pc EXCEPT ![s] = "done"]
    /\ UNCHANGED <<now, stores, req>>

-----------------------------------------------------------------------------
(* GET /streak/{username}/{language} *)

\* lines 187-189: validate, read today's date
get_streak_begin(s, username, language) ==
    /\ pc[s] = "idle"
    /\ IF ~InList(language, LANGUAGES)
       THEN /\ pc' = [pc EXCEPT ![s] = "done"]
            /\ req' = [req EXCEPT ![s] = [op |-> "streak", username |-> username,
                                          language |-> language]]
            /\ resp' = [resp EXCEPT ![s] = HTTPException(400, "Unsupported language")]
       ELSE /\ pc' = [pc EXCEPT ![s] = "streak_started"]
            /\ req' = [req EXCEPT ![s] = [op |-> "streak", username |-> username,
                                          language |-> language, date |-> today_str]]
            /\ UNCHANGED resp
    /\ UNCHANGED <<now, stores>>

\* lines 190-203: read the window start, query the window, count the streak
get_streak_query(s) ==
    /\ pc[s] = "streak_started"
    /\ LET r == CurrentStreak(submission, req[s].username, req[s].language,
                              req[s].date, start_date)
       IN  resp' = [resp EXCEPT ![s] = Ok([streak |-> r.streak, days |-> r.days])]
    /\ pc' = [pc EXCEPT ![s] = "done"]
    /\ UNCHANGED <<now, stores, req>>

-----------------------------------------------------------------------------
(* GET /challenges/{language} *)

\* lines 75-108
get_daily_challenge(s, language) ==
    /\ pc[s] = "idle"
    /\ pc' = [pc EXCEPT ![s] = "done"]
    /\ req' = [req EXCEPT ![s] = [op |-> "challenge", language |-> language]]
    /\ IF ~InList(language, LANGUAGES)
       THEN resp' = [resp EXCEPT ![s] = HTTPException(404, "Language not supported")]
       ELSE LET date == today_str
                seed == SumOrd(Spelling[language] \o Text(date))
                t == titles[(seed % Len(titles)) + 1]
                description == descriptions[(seed % Len(descriptions)) + 1]
            IN  resp' = [resp EXCEPT ![s] =
                    Ok([date |-> date,
                        language |-> language,
                        title |-> <<title(Spelling[language]), " Daily: ", t>>,
                        description |-> description,
                        id |-> <<language, "-", date>>])]
    /\ UNCHANGED <<now, stores>>

-----------------------------------------------------------------------------
(* POST /posts, GET /posts *)

\* Mutant of create_post: the post is stored before its kind is checked
create_post_WritesFirst(s, payload) ==
    /\ pc[s] = "idle"
    /\ req' = [req EXCEPT ![s] = [op |-> "create_post", payload |-> payload]]
    /\ pc' = [pc EXCEPT ![s] = "done"]
    /\ IF ~InList(payload.language, LANGUAGES)
       THEN /\ resp' = [resp EXCEPT ![s] = HTTPException(400, "Unsupported language")]
            /\ UNCHANGED stores
       ELSE /\ next_id <= MaxDocs
            /\ communitypost' = create_document(communitypost, payload, next_id)
            /\ next_id' = next_id + 1
            /\ resp' = [resp EXCEPT ![s] =
                            IF payload.kind \notin {"project", "question"}
                            THEN HTTPException(400, "Invalid kind")
                            ELSE Ok([id |-> Str(next_id)])]
            /\ UNCHANGED <<submission, comment>>
    /\ UNCHANGED now

\* Mutant of create_post: the post is stored with its title as its content
create_post_TitleAsContent(s, payload) ==
    /\ pc[s] = "idle"
    /\ req' = [req EXCEPT ![s] = [op |-> "create_post", payload |-> payload]]
    /\ pc' = [pc EXCEPT ![s] = "done"]
    /\ IF ~InList(payload.language, LANGUAGES)
       THEN /\ resp' = [resp EXCEPT ![s] = HTTPException(400, "Unsupported language")]
            /\ UNCHANGED stores
       ELSE IF payload.kind \notin {"project", "question"}
       THEN /\ resp' = [resp EXCEPT ![s] = HTTPException(400, "Invalid kind")]
            /\ UNCHANGED stores
       ELSE /\ next_id <= MaxDocs
            /\ communitypost' = create_document(communitypost,
                                                [payload EXCEPT !.content = payload.title],
                                                next_id)
            /\ next_id' = next_id + 1
            /\ resp' = [resp EXCEPT ![s] = Ok([id |-> Str(next_id)])]
            /\ UNCHANGED <<submission, comment>>
    /\ UNCHANGED now

\* lines 112-119; payload.model_dump() is the payload's five fields
create_post(s, payload) ==
    /\ pc[s] = "idle"
    /\ req' = [req EXCEPT ![s] = [op |-> "create_post", payload |-> payload]]
    /\ pc' = [pc EXCEPT ![s] = "done"]
    /\ IF ~InList(payload.language, LANGUAGES)
       THEN /\ resp' = [resp EXCEPT ![s] = HTTPException(400, "Unsupported language")]
            /\ UNCHANGED stores
       ELSE IF payload.kind \notin {"project", "question"}
       THEN /\ resp' = [resp EXCEPT ![s] = HTTPException(400, "Invalid kind")]
            /\ UNCHANGED stores
       ELSE /\ next_id <= MaxDocs
            /\ communitypost' = create_document(communitypost, payload, next_id)
            /\ next_id' = next_id + 1
            /\ resp' = [resp EXCEPT ![s] = Ok([id |-> Str(next_id)])]
            /\ UNCHANGED <<submission, comment>>
    /\ UNCHANGED now

\* for it in items: it["_id"] = str(it.get("_id"))
WithStrIds(items) == [i \in 1..Len(items) |-> [items[i] EXCEPT !._id = Str(@)]]

\* lines 123-133
list_posts(s, language, kind, limit) ==
    /\ pc[s] = "idle"
    /\ req' = [req EXCEPT ![s] = [op |-> "list_posts", language |-> language,
                                  kind |-> kind, limit |-> limit]]
    /\ pc' = [pc EXCEPT ![s] = "done"]
    /\ LET filt == [eq |-> (IF Truthy(language) THEN "language" :> language ELSE <<>>)
                           @@ (IF Truthy(kind) THEN "kind" :> kind ELSE <<>>),
                    gte |-> <<>>]
           items == Documents(get_documents(communitypost, filt, limit))
       IN  resp' = [resp EXCEPT ![s] = Ok([items |-> WithStrIds(items)])]
    /\ UNCHANGED <<now, stores>>

-----------------------------------------------------------------------------
(* POST /comments, GET /comments/{post_id} *)

\* lines 137-140
add_comment(s, payload) ==
    /\ pc[s] = "idle"
    /\ next_id <= MaxDocs
    /\ req' = [req EXCEPT ![s] = [op |-> "add_comment", payload |-> payload]]
    /\ pc' = [pc EXCEPT ![s] = "done"]
    /\ comment' = create_document(comment, payload, next_id)
    /\ next_id' = next_id + 1
    /\ resp' = [resp EXCEPT ![s] = Ok([id |-> Str(next_id)])]
    /\ UNCHANGED <<now, submission, communitypost>>

\* lines 144-148
list_comments(s, post_id, limit) ==
    /\ pc[s] = "idle"
    /\ req' = [req EXCEPT ![s] = [op |-> "list_comments", post_id |-> post_id,
                                  limit |-> limit]]
    /\ pc' = [pc EXCEPT ![s] = "done"]
    /\ LET filt == [eq |-> "post_id" :> post_id, gte |-> <<>>]
           items == Documents(get_documents(comment, filt, limit))
       IN  resp' = [resp EXCEPT ![s] = Ok([items |-> WithStrIds(items)])]
    /\ UNCHANGED <<now, stores>>

-----------------------------------------------------------------------------
(* The transport layer and the clock *)

\* the response of slot s is sent and the slot takes the next request
Return(s) ==
    /\ pc[s] = "done"
    /\ pc' = [pc EXCEPT ![s] = "idle"]
    /\ req' = [req EXCEPT ![s] = Idle]
    /\ resp' = [resp EXCEPT ![s] = NoResponse]
    /\ UNCHANGED <<now, stores>>

\* midnight passes
Tick ==
    /\ now < Day0 + MaxTicks
    /\ now' = now + 1
    /\ UNCHANGED <<stores, pc, req, resp>>

-----------------------------------------------------------------------------
(* Stores the program has reached by earlier submissions.  Documents of    *)
(* the first state carry the ids below those the behaviour generates.      *)

WithIds(entries) ==
    [i \in 1..Len(entries) |->
        [entries[i] EXCEPT !.doc = @ @@ ("_id" :> i - Len(entries))]]

\* n submissions in a row with the same fields
SubDocs(username, language, day, n) ==
    [doc |-> [username |-> username, language |-> language, date |-> strftime(day)],
     copies |-> n]

\* one submission by alice in python on each day of a set of days, oldest first
OnePerDay(daySet) ==
    [i \in 1..Cardinality(daySet) |->
        SubDocs("alice", "python",
                CHOOSE d \in daySet : Cardinality({e \in daySet : d >= e}) = i, 1)]

\* n submissions by alice in python on one day
Repeated(n, day) == <<SubDocs("alice", "python", day, n)>>

PriorSubmissions ==
    \* any choice of the HistDays days before the first day
    {OnePerDay(daySet) : daySet \in SUBSET ((Day0 - HistDays)..(Day0 - 1))}
    \* a submission on every day of a run longer than the window
    \cup {OnePerDay((Day0 - WindowDays - 2)..(Day0 - 1))}
    \* as many submissions the day before as one query returns, and one fewer
    \cup {Repeated(SubmissionLimit, Day0 - 1), Repeated(SubmissionLimit - 1, Day0 - 1)}

InitRequests ==
    /\ pc = [s \in Slots |-> "idle"]
    /\ req = [s \in Slots |-> Idle]
    /\ resp = [s \in Slots |-> NoResponse]

InitStreak ==
    /\ now = Day0
    /\ \E prior \in PriorSubmissions : submission = WithIds(prior)
    /\ communitypost = <<>>
    /\ comment = <<>>
    /\ next_id = 1
    /\ InitRequests

\* the submission and streak requests of the <<username, language>> pairs P,
\* run by slots S
StreakRequests(S, P) ==
    \/ \E s \in S : Return(s)
    \/ \E s \in S, p \in P : submit_solution_record(s, p[1], p[2])
    \/ \E s \in S : submit_solution_streak(s)
    \/ \E s \in S, p \in P : get_streak_begin(s, p[1], p[2])
    \/ \E s \in S : get_streak_query(s)

\* requests one at a time, as days pass: of every user in python and in an
\* unsupported language, and of alice in go
NextStreak ==
    \/ Tick
    \/ StreakRequests({1}, (Usernames \X {"python", "klingon"}) \cup {<<"alice", "go">>})

SpecStreak == InitStreak /\ [][NextStreak]_vars

\* two requests in flight, of one user in one language, as days pass
PriorConcurrent ==
    {<<>>, OnePerDay({Day0 - 1}), Repeated(SubmissionLimit - 1, Day0 - 1),
     Repeated(SubmissionLimit, Day0 - 1)}

InitConcurrent ==
    /\ now = Day0
    /\ \E prior \in PriorConcurrent : submission = WithIds(prior)
    /\ communitypost = <<>>
    /\ comment = <<>>
    /\ next_id = 1
    /\ InitRequests

NextConcurrent == Tick \/ StreakRequests(Slots, {<<"alice", "python">>})

SpecConcurrent == InitConcurrent /\ [][NextConcurrent]_vars

-----------------------------------------------------------------------------
(* The whole API over a store that starts empty, one request at a time *)

PostPayloads ==
    [language : {"python", "go", "klingon"}, kind : PostKinds, title : {"t1"},
     content : PostContents, author : {"alice"}]

CommentPayloads == [post_id : {Str(1), Str(2)}, author : {"bob"}, content : {"nice"}]

Init ==
    /\ now = Day0
    /\ submission = <<>>
    /\ communitypost = <<>>
    /\ comment = <<>>
    /\ next_id = 1
    /\ InitRequests

Next ==
    \/ Tick
    \/ StreakRequests({1}, {"alice"} \X {"python", "klingon"})
    \/ \E payload \in PostPayloads : create_post(1, payload)
    \/ \E language \in {None, "", "python", "go"}, kind \in {None, "project", "question"},
          limit \in PostLimits : list_posts(1, language, kind, limit)
    \/ \E payload \in CommentPayloads : add_comment(1, payload)
    \/ \E post_id \in {Str(1), Str(2)} : list_comments(1, post_id, DefaultCommentLimit)
    \/ \E language \in RequestLanguages : get_daily_challenge(1, language)

Spec == Init /\ [][Next]_vars

-----------------------------------------------------------------------------
(* The challenge generator on the days around 2024-01-15, two requests in  *)
(* flight                                                                  *)

\* days before and after 2024-01-15 on which the clock may stand
ChallengeSpan == 20

InitChallenge ==
    /\ now \in (strptime(<<2024, 1, 15>>) - ChallengeSpan)
                    ..(strptime(<<2024, 1, 15>>) + ChallengeSpan)
    /\ submission = <<>>
    /\ communitypost = <<>>
    /\ comment = <<>>
    /\ next_id = 1
    /\ InitRequests

NextChallenge ==
    \/ \E s \in Slots : Return(s)
    \/ \E s \in Slots, i \in 1..Len(LANGUAGES) : get_daily_challenge(s, LANGUAGES[i])
    \/ \E s \in Slots : get_daily_challenge(s, "klingon")

SpecChallenge == InitChallenge /\ [][NextChallenge]_vars

-----------------------------------------------------------------------------
(* Vocabulary of the properties *)

\* slot s computes the streak of its request in this step
SubmitAnswers(s) == pc[s] = "submit_recorded" /\ pc'[s] = "done"
StreakAnswers(s) == pc[s] = "streak_started" /\ pc'[s] = "done"

\* slot s holds the answer of a successful request of kind op
Answered(s, op) == pc[s] = "done" /\ req[s].op = op /\ resp[s].status = 200

\* the submissions of a pair on a date, counted with their copies
CopiesOn(coll, username, language, date) ==
    LET On(e) == e.doc.username = username /\ e.doc.language = language
                 /\ e.doc.date = date
        found == SelectSeq(coll, On)
    IN  Count(found, 1, Len(found))

\* the dates, from start on, on which a pair has a submission in the store
DatesSince(username, language, start) ==
    {submission[i].doc.date : i \in
        {j \in 1..Len(submission) :
            /\ submission[j].doc.username = username
            /\ submission[j].doc.language = language
            /\ StrGte(submission[j].doc.date, start)}}

\* the date strings of the k days ending at day r
LastDays(r, k) == {strftime(r - j) : j \in 0..(k - 1)}

\* the length of the unbroken run of days of dateSet that ends at day r
RunLength(dateSet, r) ==
    CHOOSE k \in 0..(Cardinality(dateSet) + 1) :
        /\ LastDays(r, k) \subseteq dateSet
        /\ strftime(r - k) \notin dateSet

\* the entries of a collection other than those at the indices of same,
\* but for the first of these, kept as one document
CollapseAt(coll, same) ==
    LET Kept(t) == t.keep
    IN  SelectSeq([i \in 1..Len(coll) |->
                      [e |-> IF i \in same THEN [coll[i] EXCEPT !.copies = 1] ELSE coll[i],
                       keep |-> i \notin same \/ (\A j \in same : i <= j)]],
                  Kept)

\* the collection with the submissions of a pair on a date collapsed into the
\* first of them
CollapseDay(coll, username, language, date) ==
    LET kept == CollapseAt(coll, {i \in 1..Len(coll) :
                                     /\ coll[i].doc.username = username
                                     /\ coll[i].doc.language = language
                                     /\ coll[i].doc.date = date})
    IN  [i \in 1..Len(kept) |-> kept[i].e]

\* what the handlers would compute for slot s had its pair submitted once on
\* the date of its request
StreakOnce(s) ==
    CurrentStreak(CollapseDay(submission, req[s].username, req[s].language,
                              req[s].date),
                  req[s].username, req[s].language, req[s].date, start_date)

-----------------------------------------------------------------------------
(* C1: every successful POST /submit returns a streak of at least 1 and    *)
(* the date of the record it appended, whatever the store held before.     *)

C1_SubmitCountsToday ==
    \A s \in Slots :
        Answered(s, "submit") =>
            /\ resp[s].body.streak >= 1
            /\ resp[s].body.date = req[s].date
            /\ CopiesOn(submission, req[s].username, req[s].language, req[s].date) >= 1

-----------------------------------------------------------------------------
(* C3: the streak a request returns, from POST /submit and from            *)
(* GET /streak, is the streak it would return had the pair submitted       *)
(* exactly once on the request's date, however many times it did.          *)

-----------------------------------------------------------------------------
(* C4: GET /streak answers 0 when the pair has no submission dated on the  *)
(* request's date, whatever it submitted earlier and whatever others       *)
(* submitted that day.                                                     *)

C4_NoSubmissionTodayIsZero ==
    [][\A s \in Slots :
          (/\ StreakAnswers(s)
           /\ CopiesOn(submission, req[s].username, req[s].language, req[s].date) = 0)
          => resp'[s].body.streak = 0]_vars

\* a streak of 0 answered to a pair that submitted the day before, while
\* another user and another language have a submission on the request's date
C4_Witness ==
    \E s \in Slots :
        /\ Answered(s, "streak")
        /\ resp[s].body.streak = 0
        /\ CopiesOn(submission, req[s].username, req[s].language, req[s].date) = 0
        /\ CopiesOn(submission, req[s].username, req[s].language,
                    strftime(strptime(req[s].date) - 1)) >= 1
        /\ \E i \in 1..Len(submission) :
              /\ submission[i].doc.date = req[s].date
              /\ submission[i].doc.username # req[s].username
        /\ \E i \in 1..Len(submission) :
              /\ submission[i].doc.date = req[s].date
              /\ submission[i].doc.language # req[s].language

-----------------------------------------------------------------------------
(* C5: when the pair's submissions in the window fall on exactly the k     *)
(* consecutive dates ending at the request's date R, GET /streak answers   *)
(* streak k and days those k dates in ascending order.                     *)

C5_ConsecutiveDaysCount ==
    [][\A s \in Slots :
          StreakAnswers(s) =>
              LET r == strptime(req[s].date)
                  dates == DatesSince(req[s].username, req[s].language, start_date)
              IN  \A k \in 1..(WindowDays + 1) :
                      dates = LastDays(r, k) =>
                          /\ resp'[s].body.streak = k
                          /\ resp'[s].body.days = [i \in 1..k |-> strftime(r - k + i)]]_vars

-----------------------------------------------------------------------------
(* C6: the streak is the length of the unbroken run of submission dates    *)
(* that ends at the request's date: it stops at the first missing day and  *)
(* no date before a missing day adds to it.  With submissions on R-3 and   *)
(* R-1 only it is 0 as of R, and with submissions on R-2 and R only it is  *)
(* 1 as of R.                                                              *)

C6_GapBreaksChain ==
    [][\A s \in Slots :
          StreakAnswers(s) =>
              LET r == strptime(req[s].date)
                  dates == DatesSince(req[s].username, req[s].language, start_date)
              IN  /\ resp'[s].body.streak = RunLength(dates, r)
                  /\ dates = {strftime(r - 3), strftime(r - 1)} => resp'[s].body.streak = 0
                  /\ dates = {strftime(r - 2), strftime(r)} => resp'[s].body.streak = 1]_vars

-----------------------------------------------------------------------------
(* C10: only submissions inside the trailing window count.  No day before  *)
(* the window start appears in days, and the streak never exceeds the      *)
(* number of days from the window start to the request's date, however     *)
(* long the pair's true run of days is.                                    *)

-----------------------------------------------------------------------------
(* C7: concurrent POST /submit requests of one user in one language on one *)
(* day each append a record of their own, and every streak computed then,  *)
(* by them or by GET /streak, is the streak one submission that day gives. *)

-----------------------------------------------------------------------------
(* C2: a POST /submit or POST /posts whose language is not one of the six  *)
(* supported ones, or a POST /posts whose kind is neither project nor      *)
(* question, is answered with a 4xx status and leaves the three            *)
(* collections as they were.                                               *)

SupportedLanguages == {"python", "javascript", "java", "go", "rust", "cpp"}

\* slot s takes a request in this step that validation must refuse
Invalid(s) ==
    /\ pc[s] = "idle" /\ pc'[s] # "idle"
    /\ \/ req'[s].op = "submit" /\ req'[s].language \notin SupportedLanguages
       \/ /\ req'[s].op = "create_post"
          /\ \/ req'[s].payload.language \notin SupportedLanguages
             \/ req'[s].payload.kind \notin {"project", "question"}

C2_RejectedRequestWritesNothing ==
    [][\A s \in Slots :
          Invalid(s) =>
              /\ pc'[s] = "done"
              /\ resp'[s].status >= 400 /\ resp'[s].status < 500
              /\ submission' = submission
              /\ communitypost' = communitypost
              /\ comment' = comment]_vars

\* a post of an invalid kind in a supported language has been refused while
\* the store already holds a post
C2_Witness ==
    \E s \in Slots :
        /\ pc[s] = "done" /\ req[s].op = "create_post"
        /\ req[s].payload.language \in SupportedLanguages
        /\ req[s].payload.kind \notin {"project", "question"}
        /\ resp[s].status = 400
        /\ Len(communitypost) >= 1

-----------------------------------------------------------------------------
(* C9: a successful POST /posts stores the post's five fields as sent and  *)
(* answers its id; a GET /posts filtered by the post's language and kind   *)
(* returns every stored post of that language and kind, fields unchanged.  *)

PostFields == {"language", "kind", "title", "content", "author"}

\* slot s stores the post of its request in this step
PostStored(s) ==
    /\ pc[s] = "idle" /\ pc'[s] = "done"
    /\ req'[s].op = "create_post" /\ resp'[s].status = 200

\* slot s lists the posts of a language and a kind in this step
PostsListed(s) ==
    /\ pc[s] = "idle" /\ pc'[s] = "done"
    /\ req'[s].op = "list_posts"
    /\ Truthy(req'[s].language) /\ Truthy(req'[s].kind)

\* the stored posts of the language and kind slot s lists
Listable(s) ==
    {i \in 1..Len(communitypost) :
        /\ communitypost[i].doc.language = req'[s].language
        /\ communitypost[i].doc.kind = req'[s].kind}

\* stored post i is among the items answered to slot s, fields unchanged
Listed(s, i) ==
    \E n \in 1..Len(resp'[s].body.items) :
        LET item == resp'[s].body.items[n]
        IN  /\ item._id = Str(communitypost[i].doc._id)
            /\ \A f \in PostFields : item[f] = communitypost[i].doc[f]

\* the post is stored as sent, under the id answered
StoredAsSent(s) ==
    /\ Len(communitypost') = Len(communitypost) + 1
    /\ LET e == communitypost'[Len(communitypost')]
       IN  /\ e.copies = 1
           /\ \A f \in PostFields : e.doc[f] = req'[s].payload[f]
           /\ resp'[s].body.id = Str(e.doc._id)

\* C9 as claimed: whatever other posts the store holds
C9_PostRoundTrip ==
    [][\A s \in Slots :
          /\ PostStored(s) => StoredAsSent(s)
          /\ PostsListed(s) => \A i \in Listable(s) : Listed(s, i)]_vars

\* C9 as amended: as long as the posts of that language and kind are no
\* more than the limit of the GET /posts request
C9_PostRoundTripWithinLimit ==
    [][\A s \in Slots :
          /\ PostStored(s) => StoredAsSent(s)
          /\ (PostsListed(s) /\ Cardinality(Listable(s)) <= req'[s].limit) =>
                \A i \in Listable(s) : Listed(s, i)]_vars

\* a listing by language and kind has returned the second post of the store,
\* with the content it was sent with, and not the first, which is of another
\* language or kind
C9_Witness ==
    \E s \in Slots :
        /\ pc[s] = "done" /\ req[s].op = "list_posts"
        /\ Truthy(req[s].language) /\ Truthy(req[s].kind)
        /\ Len(communitypost) = 2
        /\ \/ communitypost[1].doc.language # req[s].language
           \/ communitypost[1].doc.kind # req[s].kind
        /\ Len(resp[s].body.items) = 1
        /\ resp[s].body.items[1]._id = Str(communitypost[2].doc._id)
        /\ resp[s].body.items[1].content = communitypost[2].doc.content
        /\ resp[s].body.items[1].content = "c2"

-----------------------------------------------------------------------------
(* C8: the challenge of a supported language L on date D has the title     *)
(* "<L capitalized> Daily: " followed by entry (seed mod 8) of the title   *)
(* table and the description entry (seed mod 3) of the description table,  *)
(* seed being the sum of the character codes of L followed by D as         *)
(* YYYY-MM-DD, and the id "<L>-<D>"; two requests with the same L and D    *)
(* are answered the same descriptor, and a request writes nothing.         *)

\* the sum of the character codes of each language name
NameSum ==
    [python |-> 674, javascript |-> 1079, java |-> 418, go |-> 214, rust |-> 462,
     cpp |-> 323]

Capitalized ==
    [python |-> <<"P", "y", "t", "h", "o", "n">>,
     javascript |-> <<"J", "a", "v", "a", "s", "c", "r", "i", "p", "t">>,
     java |-> <<"J", "a", "v", "a">>,
     go |-> <<"G", "o">>,
     rust |-> <<"R", "u", "s", "t">>,
     cpp |-> <<"C", "p", "p">>]

DigitSum(n) ==
    ((n \div 1000) % 10) + ((n \div 100) % 10) + ((n \div 10) % 10) + (n % 10)

\* ten characters: eight digits, each 48 more than its value, and two hyphens
DateSum(date) ==
    (8 * 48) + (2 * 45) + DigitSum(date[1]) + DigitSum(date[2]) + DigitSum(date[3])

ClaimedChallenge(language, date) ==
    LET seed == NameSum[language] + DateSum(date)
    IN  [date |-> date,
         language |-> language,
         title |-> <<Capitalized[language], " Daily: ",
                     CASE seed % 8 = 0 -> "Two Sum Variant"
                       [] seed % 8 = 1 -> "String Compression"
                       [] seed % 8 = 2 -> "Balanced Brackets"
                       [] seed % 8 = 3 -> "LRU Cache Mini"
                       [] seed % 8 = 4 -> "Matrix Spiral"
                       [] seed % 8 = 5 -> "Binary Tree Paths"
                       [] seed % 8 = 6 -> "Anagram Groups"
                       [] seed % 8 = 7 -> "Word Ladder Mini">>,
         description |->
             CASE seed % 3 = 0 -> "Solve the task and share your approach."
               [] seed % 3 = 1 -> "Write clean, idiomatic code and discuss trade-offs."
               [] seed % 3 = 2 -> "Consider time/space complexity and edge cases.",
         id |-> <<language, "-", date>>]

C8_ChallengeIsDeterministic ==
    [][\A s \in Slots :
          (/\ pc[s] = "idle" /\ pc'[s] = "done"
           /\ req'[s].op = "challenge"
           /\ req'[s].language \in SupportedLanguages)
          => /\ resp'[s] = Ok(ClaimedChallenge(req'[s].language, strftime(now)))
             /\ \A t \in Slots :
                   (/\ pc[t] = "done" /\ req[t].op = "challenge"
                    /\ req[t].language = req'[s].language
                    /\ resp[t].status = 200
                    /\ resp[t].body.date = resp'[s].body.date)
                   => resp'[s] = resp[t]
             /\ submission' = submission
             /\ communitypost' = communitypost
             /\ comment' = comment]_vars

\* both slots hold the python challenge of 2024-01-15: seed 1163, title
\* entry 3 and description entry 2
C8_Witness ==
    \A s \in Slots :
        /\ pc[s] = "done" /\ req[s].op = "challenge" /\ req[s].language = "python"
        /\ resp[s].status = 200
        /\ resp[s].body.date = <<2024, 1, 15>>
        /\ resp[s].body.title = <<<<"P", "y", "t", "h", "o", "n">>, " Daily: ",
                                  "LRU Cache Mini">>
        /\ resp[s].body.description = "Consider time/space complexity and edge cases."
        /\ resp[s].body.id = <<"python", "-", <<2024, 1, 15>>>>

====
